---- MODULE Spec2Model ----
(***************************************************************************)
(* A model of the actor runner.  Two generations of the runner live in     *)
(* the repository and both are modelled:                                   *)
(*                                                                         *)
(*   variant = "ctx"      the context-passing group (group.run): shared    *)
(*                        run context, close channel, optional close       *)
(*                        timeout, optional synchronous shutdown;          *)
(*   variant = "sidecar"  the function-pair Group (Group.Run) with regular *)
(*                        and sidecar actors, interrupts called in a loop  *)
(*                        on the Run goroutine.                            *)
(*                                                                         *)
(* Each goroutine is a process: the Run goroutine's position is pc, every  *)
(* actor goroutine's position is exec[a], every interrupt call's position  *)
(* is intr[a].  Channels are FIFO sequences.                               *)
(***************************************************************************)
EXTENDS Integers, Sequences, FiniteSets, TLC

\* Largest number of actors registered before Run.
MaxActors == 3

\* Largest number of actors registered before Run in the fair specification.
MaxFairActors == 2

\* Largest number of actors when the interrupts' own errors are told apart.
MaxCloseActors == 2

\* Largest number of actors in a group with ContextHandler actors.
MaxHandlerActors == 2

\* Largest number of actors in a group that holds a SignalHandler.
MaxSignalActors == 2

\* Largest number of actors in a group that holds a GracefulRestart.
MaxRestartActors == 2

\* Largest number of components registered in a Runnable group that is run.
MaxRunning == 2

\* The same where Alive is called while the group is run.
MaxAliveRunning == 2

\* Largest number of tasks counted in the wait group of the reaper.
MaxTasks == 3

\* Largest number of components registered in the Runnable group.
MaxRunnables == 3

\* Largest number of components handed to one call of Add.
MaxArgs == 2

\* Go's nil error.  The non-nil error of actor a is the number a, so that an
\* error value names the actor that returned it.
Nil == 0

\* The values of group.closeTimeout that are tried: zero (no timeout) and one
\* positive duration.
Durations == {0, 1}

\* What an execute function does: "returns" may return at any moment, on its
\* own or because it saw the run context cancelled or its interrupt invoked;
\* "untilInterrupt" returns only once its interrupt was invoked.
ExecuteKinds == {"returns", "untilInterrupt"}

\* The same with the execute of ContextHandler, which returns once the
\* context it was given is cancelled or its interrupt was invoked.
HandlerKinds == ExecuteKinds \cup {"contextHandler"}

\* The same with the execute of SignalHandler, which returns once a watched
\* signal was received or its context is cancelled.
SignalKinds == ExecuteKinds \cup {"signalHandler"}

\* The same with the execute of GracefulRestart, which calls upg.Ready() and
\* then returns once upg.Exit() fires or its context is cancelled.
RestartKinds == ExecuteKinds \cup {"gracefulRestart"}

\* The signals the process may receive, by number: SIGHUP, SIGINT, SIGTERM.
Signals == {1, 2, 15}

\* signals ...os.Signal: the signals handed to SignalHandler.
Watched == {2, 15}

\* SignalError{Signal: sig}, as an error value apart from every other one.
SignalError(sig) == 100 + sig

\* The error of a failed upg.Ready().
ReadyError == 100

\* The tasks that may be counted in the wait group of the reaper.
Tasks == 1..MaxTasks

\* The Runnable components that may be handed to the Runnable group's Add.
\* All embed ForwardCompatibility: c1 defines every method of Runnable itself,
\* c2 defines Run, Close and Alive, fc defines Run only.
Components == {"c1", "c2", "fc"}

\* The methods of Runnable that component c's type defines itself.
Overrides(c) ==
    CASE c = "c1" -> {"Run", "Close", "Alive", "Name", "Fields"}
      [] c = "c2" -> {"Run", "Close", "Alive"}
      [] c = "fc" -> {"Run"}

\* A ForwardCompatibility whose Alive reports false.
ForwardCompatibility_AliveFalse == FALSE

\* func (ForwardCompatibility) Alive() bool { return true }
ForwardCompatibility_Alive == TRUE

\* func (ForwardCompatibility) Name() string { return "unknown" }
ForwardCompatibility_Name == "unknown"

\* func (ForwardCompatibility) Fields() []slog.Attr { return []slog.Attr{} }
ForwardCompatibility_Fields == <<>>

\* func (ForwardCompatibility) Close(context.Context) error { return nil }
ForwardCompatibility_Close == Nil

\* c.Name(): the component's own method, or the promoted default.
Name(c) ==
    IF "Name" \in Overrides(c) THEN "runnable" ELSE ForwardCompatibility_Name

\* c.Fields(): the component's own method, or the promoted default.
Fields(c) ==
    IF "Fields" \in Overrides(c)
    THEN <<[key |-> "foo", value |-> "bar"]>>
    ELSE ForwardCompatibility_Fields

\* What c.Close(ctx) may return: anything for the component's own method,
\* the promoted default otherwise.
CloseResults(c) ==
    IF "Close" \in Overrides(c) THEN {Nil, 1} ELSE {ForwardCompatibility_Close}

\* What c.Alive() reports when the component is made.
InitiallyAlive(c) ==
    IF "Alive" \in Overrides(c) THEN TRUE ELSE ForwardCompatibility_Alive

VARIABLES
    variant,        \* which runner: "ctx" or "sidecar"
    closeTimeout,   \* group.closeTimeout
    syncShutdown,   \* group.syncShutdown
    actors,         \* g.actors: sequence of [execute, sidecar]
    pc,             \* position of the Run goroutine
    exec,           \* exec[a]: "idle", "running", "done" (returned and sent)
    ret,            \* ret[a]: <<>> while execute has not returned, else <<err>>
    intr,           \* intr[a]: "idle", "running", "done" of a.interrupt
    execCalls,      \* execCalls[a]: number of invocations of a.execute
    intrCalls,      \* intrCalls[a]: number of invocations of a.interrupt
    runCh,          \* runCh of group.run: sequence of errors
    closeCh,        \* closeCh of group.run: number of pending notifications
    actorResults,   \* result channel of Group.Run: sequence of [sidecar, err]
    err,            \* the local err of Run
    waitCount,      \* the local waitCount of Group.Run
    idx,            \* index of the interrupt loop (1-based)
    cnt,            \* the local i of the receive loops
    runCtxDone,     \* runCtx has been cancelled
    cancelCalls,    \* number of calls of runCancel
    closeCtxDone,   \* closeCtx is done (deadline passed or cancelled)
    chClosed,       \* the deferred close(runCh), close(closeCh) have run
    panicked,       \* some goroutine sent on a closed channel
    result,         \* <<>> until Run returns, then <<the returned error>>
    firstQ,         \* <<>>, or <<[sidecar, err]>> of the first qualifying
                    \* completion in the order the completions were sent
    firstExit,      \* <<>>, or <<[sidecar, err]>> of the first completion
                    \* that was sent
    intrArg,        \* intrArg[a]: <<>>, or <<the error a.interrupt was given>>
    intrErr,        \* intrErr[a]: <<>>, or <<the error a.interrupt returned>>
    parentDone,     \* the context given to ContextHandler has been cancelled
    parentEarly,    \* it was cancelled before Run was called or while every
                    \* execute was still running
    runnables,      \* g.runnables of the Runnable group: component names
    alive,          \* alive[c]: what component c's Alive() reports
    lastAdd,        \* <<>>, or <<[when, rs, runnables, actors]>>: the last
                    \* call of Add and what was registered before it
    log,            \* the records the Runnable group's logger has written
    aliveResult,    \* <<>>, or <<what the last call of Group.Alive returned>>
    sigCh,          \* the channel c of SignalHandler: <<>> or <<signal>>
    sigNotify,      \* signal.Notify(c, signals...) has been called
    sigGot,         \* <<>>, or <<the signal that was delivered to c>>
    sigFirst,       \* that signal was delivered while the handler's
                    \* context was not cancelled
    upgReady,       \* upg.Ready(): "notCalled", "ok" or "failed"
    upgExit,        \* the channel upg.Exit() has fired
    upgExitFirst,   \* it fired while the context of GracefulRestart was
                    \* not cancelled
    upgStops,       \* number of calls of upg.Stop()
    waitPc,         \* position of wait.Run: "idle", "waitDone", "waitGroup",
                    \* "returned"
    done,           \* w.done has been closed by wait.Close
    wg              \* the tasks of w.wg: "new", "outstanding" or "finished"

vars == <<variant, closeTimeout, syncShutdown, actors, pc, exec, ret, intr,
          execCalls, intrCalls, runCh, closeCh, actorResults, err, waitCount,
          idx, cnt, runCtxDone, cancelCalls, closeCtxDone, chClosed, panicked,
          result, firstQ, firstExit, intrArg, intrErr, parentDone,
          parentEarly, runnables, alive, lastAdd, log, aliveResult, sigCh,
          sigNotify, sigGot, sigFirst, upgReady, upgExit, upgExitFirst,
          upgStops, waitPc, done, wg>>

config == <<variant, closeTimeout, syncShutdown>>
runLocals == <<err, waitCount, idx, cnt>>
ctxState == <<runCtxDone, cancelCalls, closeCtxDone>>
parent == <<parentDone, parentEarly>>
registry == <<runnables, alive, lastAdd>>
signal == <<sigCh, sigNotify, sigGot, sigFirst>>
upgrader == <<upgReady, upgExit, upgExitFirst, upgStops>>
reaper == <<waitPc, done, wg>>
helpers == <<signal, upgrader, reaper>>

N == Len(actors)
Actors == 1..N

-----------------------------------------------------------------------------
(* Pure helpers *)

\* Benign without the sidecar exemption: every completion stops the group.
BenignNever(r) == FALSE

\* Benign without the test of the error: no sidecar ever stops the group.
BenignAnySidecar(r) == r.sidecar

\* Benign without the test of the sidecar flag: no nil result stops the group.
BenignAnyNil(r) == r.err = Nil

\* A completion that does not stop the group: a sidecar that returned nil.
Benign(r) == r.sidecar /\ r.err = Nil

\* The errors actor a's execute may return: nil or its own error.
ErrorsOf(a) == {Nil, a}

\* context.Canceled
Canceled == -1

\* The actors made by ContextHandler.
Handlers == {a \in Actors : actors[a].execute = "contextHandler"}

\* The actors made by SignalHandler and by GracefulRestart.
SignalHandlers == {a \in Actors : actors[a].execute = "signalHandler"}
Restarters == {a \in Actors : actors[a].execute = "gracefulRestart"}

\* ctx.Done() of the context actor a derived with context.WithCancel(ctx):
\* the parent was cancelled, or the interrupt of a has called cancel().
CtxDone(a) == parentDone \/ intr[a] # "idle"

\* ContextHandler's execute returning nil.
ExecuteErrorsNil(a) ==
    IF actors[a].execute = "contextHandler" THEN {Nil} ELSE ErrorsOf(a)

\* The select of SignalHandler's execute always taking <-ctx.Done().
SelectSignal_CtxOnly(a) == {Canceled}

\* select { case sig := <-c: return SignalError{Signal: sig};
\*          case <-ctx.Done(): return ctx.Err() }
\* Go chooses among the cases that are ready.
SelectSignal(a) ==
    {SignalError(sigCh[k]) : k \in DOMAIN sigCh}
        \cup (IF CtxDone(a) THEN {Canceled} ELSE {})

\* err := upg.Ready(); if err != nil { return err }
\* select { case <-upg.Exit(): return nil;
\*          case <-ctx.Done(): return ctx.Err() }
SelectExit(a) ==
    IF upgReady = "failed"
    THEN {ReadyError}
    ELSE (IF upgExit THEN {Nil} ELSE {})
             \cup (IF CtxDone(a) THEN {Canceled} ELSE {})

\* What the execute of actor a may return: ContextHandler's execute returns
\* ctx.Err() of a context that is only ever cancelled.
ExecuteErrors(a) ==
    CASE actors[a].execute = "contextHandler" -> {Canceled}
      [] actors[a].execute = "signalHandler" -> SelectSignal(a)
      [] actors[a].execute = "gracefulRestart" -> SelectExit(a)
      [] OTHER -> ErrorsOf(a)

\* The errors actor a's interrupt may return: nil or its own close error.
CloseErrorsOf(a) == {Nil, -(a + 1)}

\* The interrupt loop handing nil to every interrupt.
InterruptArgNil == Nil

\* a.interrupt(err): what the interrupt loop of Group.Run hands to each
\* interrupt.
InterruptArg == err

\* Channels with room for one result less than there are actors.
ChanCapShort == N - 1

\* cap(runCh), cap(closeCh), cap of the result channel: len(g.actors).
ChanCap == N

\* The loop that waits for the remaining actors, one iteration short.
DrainFromLate == 1 + 1

\* The loop that waits for the remaining actors, one iteration too many.
DrainFromEarly == 1 - 1

\* First index of the loop that waits for the remaining actors.
DrainFrom == 1

\* The loop that waits for the Close notifications, one iteration short.
CloseFromLate == 0 + 1

\* First index of the loop that waits for the Close notifications.
CloseFrom == 0

\* The loop that waits for the first result without its exit condition.
LoopForever(w) == TRUE

\* for waitCount > 0: the loop that waits for the first result goes on.
LoopGoesOn(w) == w > 0

\* The shutdown loop with the syncShutdown option ignored.
SynchronousNever == FALSE

\* The shutdown loop calling every shutdown(a) on the Run goroutine.
SynchronousAlways == TRUE

\* if g.syncShutdown: shutdown(a) is called on the Run goroutine.
Synchronous == syncShutdown

\* The execute of actor a has been told to stop.
ToldToStop(a) == intr[a] # "idle" \/ runCtxDone

\* The execute of actor a is able to return now.
MayReturn(a) ==
    /\ exec[a] = "running"
    /\ (actors[a].execute = "untilInterrupt" => intr[a] # "idle")
    /\ (actors[a].execute = "contextHandler" =>
            parentDone \/ intr[a] # "idle")
    /\ (actors[a].execute = "signalHandler" =>
            sigNotify /\ SelectSignal(a) # {})
    /\ (actors[a].execute = "gracefulRestart" =>
            upgReady # "notCalled" /\ SelectExit(a) # {})

\* The completion r, noted if it is the first one that is not a sidecar
\* returning nil.
NoteCompletion(r) ==
    IF firstQ = <<>> /\ (~r.sidecar \/ r.err # Nil) THEN <<r>> ELSE firstQ

\* The completion r, noted if it is the first one.
NoteExit(r) == IF firstExit = <<>> THEN <<r>> ELSE firstExit

\* Actor a was registered by the Runnable group's add, which wraps the Run
\* and Close of component runnables[a] in functions that log.
Logged(a) == a <= Len(runnables)

\* The record logger.Info(msg, "method", method) writes for actor a; the
\* logger carries the component's name and fields.
Record(a, msg, method) ==
    [component |-> a, name |-> Name(runnables[a]),
     fields |-> Fields(runnables[a]), msg |-> msg, method |-> method]

\* The record for actor a has been written.
Written(a, msg, method) ==
    \E k \in DOMAIN log : log[k] = Record(a, msg, method)

\* The wrapping functions writing every record twice.
LogsTwice(a, msg, method) ==
    IF Logged(a)
    THEN Append(Append(log, Record(a, msg, method)), Record(a, msg, method))
    ELSE log

\* The log after the wrapping function of actor a, if it has one, has
\* written its record.
Logs(a, msg, method) ==
    IF Logged(a) THEN Append(log, Record(a, msg, method)) ELSE log

-----------------------------------------------------------------------------
(* Construction and registration *)

Init ==
    /\ variant \in {"ctx", "sidecar"}
    /\ closeTimeout \in (IF variant = "ctx" THEN Durations ELSE {0})
    /\ syncShutdown \in (IF variant = "ctx" THEN BOOLEAN ELSE {FALSE})
    /\ actors = <<>>
    /\ pc = "idle"
    /\ exec = <<>>
    /\ ret = <<>>
    /\ intr = <<>>
    /\ execCalls = <<>>
    /\ intrCalls = <<>>
    /\ runCh = <<>>
    /\ closeCh = 0
    /\ actorResults = <<>>
    /\ err = Nil
    /\ waitCount = 0
    /\ idx = 0
    /\ cnt = 0
    /\ runCtxDone = FALSE
    /\ cancelCalls = 0
    /\ closeCtxDone = FALSE
    /\ chClosed = FALSE
    /\ panicked = FALSE
    /\ result = <<>>
    /\ firstQ = <<>>
    /\ firstExit = <<>>
    /\ intrArg = <<>>
    /\ intrErr = <<>>
    /\ parentDone = FALSE
    /\ parentEarly = FALSE
    /\ runnables = <<>>
    /\ alive = [c \in Components |-> InitiallyAlive(c)]
    /\ lastAdd = <<>>
    /\ log = <<>>
    /\ aliveResult = <<>>
    /\ sigCh = <<>>
    /\ sigNotify = FALSE
    /\ sigGot = <<>>
    /\ sigFirst = FALSE
    /\ upgReady = "notCalled"
    /\ upgExit = FALSE
    /\ upgExitFirst = FALSE
    /\ upgStops = 0
    /\ waitPc = "idle"
    /\ done = FALSE
    /\ wg = [t \in Tasks |-> "new"]

\* append(g.actors, actor{...}): one more actor, not started, not interrupted.
Register(a) ==
    /\ actors' = Append(actors, a)
    /\ exec' = Append(exec, "idle")
    /\ ret' = Append(ret, <<>>)
    /\ intr' = Append(intr, "idle")
    /\ execCalls' = Append(execCalls, 0)
    /\ intrCalls' = Append(intrCalls, 0)
    /\ intrArg' = Append(intrArg, <<>>)
    /\ intrErr' = Append(intrErr, <<>>)
    /\ UNCHANGED <<config, pc, runCh, closeCh, actorResults, runLocals,
                   ctxState, chClosed, panicked, result, firstQ, firstExit,
                   parent, registry,
                   log, aliveResult, helpers>>

\* group.add(execute, interrupt)
add(max, e) ==
    /\ variant = "ctx"
    /\ pc = "idle"
    /\ N < max
    /\ Register([execute |-> e, sidecar |-> FALSE])

\* Group.Add(execute, interrupt)
Add(max, e) ==
    /\ variant = "sidecar"
    /\ pc = "idle"
    /\ N < max
    /\ Register([execute |-> e, sidecar |-> FALSE])

\* Group.AddSidecar(execute, interrupt)
AddSidecar(max, e) ==
    /\ variant = "sidecar"
    /\ pc = "idle"
    /\ N < max
    /\ Register([execute |-> e, sidecar |-> TRUE])

-----------------------------------------------------------------------------
(* group.run: the context-passing runner *)

\* group.run without its test of len(g.actors).
run_Start_NoZeroCheck ==
    /\ variant = "ctx"
    /\ pc = "idle"
    /\ pc' = "waitFirst"
    /\ exec' = [a \in Actors |-> "running"]
    /\ execCalls' = [a \in Actors |-> execCalls[a] + 1]
    /\ UNCHANGED <<config, actors, ret, intr, intrCalls, runCh, closeCh,
                   actorResults, runLocals, ctxState, chClosed, panicked,
                   result, firstQ,
                   firstExit, intrArg, intrErr, parent, registry,
                   log, aliveResult, helpers>>

\* group.run calling runCancel() without waiting for the first actor to stop.
run_Start_NotWaiting ==
    /\ variant = "ctx"
    /\ pc = "idle"
    /\ IF N = 0
       THEN /\ pc' = "returned"
            /\ result' = <<Nil>>
            /\ UNCHANGED <<exec, execCalls>>
       ELSE /\ pc' = "cancel"
            /\ exec' = [a \in Actors |-> "running"]
            /\ execCalls' = [a \in Actors |-> execCalls[a] + 1]
            /\ UNCHANGED result
    /\ UNCHANGED <<config, actors, ret, intr, intrCalls, runCh, closeCh,
                   actorResults, runLocals, ctxState, chClosed, panicked,
                   firstQ,
                   firstExit, intrArg, intrErr, parent, registry,
                   log, aliveResult, helpers>>

\* if len(g.actors) == 0 { return nil }; otherwise make runCtx and runCh and
\* start one goroutine per actor, each calling its execute.
run_Start ==
    /\ variant = "ctx"
    /\ pc = "idle"
    /\ IF N = 0
       THEN /\ pc' = "returned"
            /\ result' = <<Nil>>
            /\ UNCHANGED <<exec, execCalls>>
       ELSE /\ pc' = "waitFirst"
            /\ exec' = [a \in Actors |-> "running"]
            /\ execCalls' = [a \in Actors |-> execCalls[a] + 1]
            /\ UNCHANGED result
    /\ UNCHANGED <<config, actors, ret, intr, intrCalls, runCh, closeCh,
                   actorResults, runLocals, ctxState, chClosed, panicked,
                   firstQ,
                   firstExit, intrArg, intrErr, parent, registry,
                   log, aliveResult, helpers>>

\* The goroutine of actor a: runCh <- a.execute(runCtx).  The send blocks
\* while the channel is full and panics once the channel is closed.
run_Actor(a) ==
    /\ variant = "ctx"
    /\ a \in Actors
    /\ MayReturn(a)
    /\ Logged(a) => Written(a, "started", "run")
    /\ chClosed \/ Len(runCh) < ChanCap
    /\ \E e \in ErrorsOf(a) :
         /\ ret' = [ret EXCEPT ![a] = <<e>>]
         /\ firstQ' = NoteCompletion([sidecar |-> FALSE, err |-> e])
         /\ firstExit' = NoteExit([sidecar |-> FALSE, err |-> e])
         /\ IF chClosed
            THEN panicked' = TRUE /\ UNCHANGED runCh
            ELSE runCh' = Append(runCh, e) /\ UNCHANGED panicked
    /\ exec' = [exec EXCEPT ![a] = "done"]
    /\ log' = Logs(a, "returned", "run")
    /\ UNCHANGED <<config, actors, pc, intr, execCalls, intrCalls, closeCh,
                   actorResults, runLocals, ctxState, chClosed, result,
                   intrArg, intrErr, parent, registry, aliveResult, helpers>>

\* group.run returning the first result as soon as it is received.
run_RecvFirst_Returning ==
    /\ variant = "ctx"
    /\ pc = "waitFirst"
    /\ runCh # <<>>
    /\ err' = Head(runCh)
    /\ runCh' = Tail(runCh)
    /\ result' = <<Head(runCh)>>
    /\ pc' = "returned"
    /\ UNCHANGED <<config, actors, exec, ret, intr, execCalls, intrCalls,
                   closeCh, actorResults, waitCount, idx, cnt, ctxState,
                   chClosed, panicked, firstQ, firstExit, intrArg, intrErr,
                   parent, registry, log, aliveResult, helpers>>

\* err := <-runCh
run_RecvFirst ==
    /\ variant = "ctx"
    /\ pc = "waitFirst"
    /\ runCh # <<>>
    /\ err' = Head(runCh)
    /\ runCh' = Tail(runCh)
    /\ pc' = "cancel"
    /\ UNCHANGED <<config, actors, exec, ret, intr, execCalls, intrCalls,
                   closeCh, actorResults, waitCount, idx, cnt, ctxState,
                   chClosed, panicked, result, firstQ,
                   firstExit, intrArg, intrErr, parent, registry,
                   log, aliveResult, helpers>>

\* group.run without its call of runCancel.
run_Cancel_Forgotten ==
    /\ variant = "ctx"
    /\ pc = "cancel"
    /\ pc' = "shutdown"
    /\ idx' = 1
    /\ UNCHANGED <<config, actors, exec, ret, intr, execCalls, intrCalls,
                   runCh, closeCh, actorResults, err, waitCount, cnt,
                   ctxState, chClosed, panicked, result, firstQ,
                   firstExit, intrArg, intrErr, parent, registry,
                   log, aliveResult, helpers>>

\* runCancel(), then closeCtx (with its deadline when closeTimeout # 0) and
\* closeCh are made.
run_Cancel ==
    /\ variant = "ctx"
    /\ pc = "cancel"
    /\ runCtxDone' = TRUE
    /\ cancelCalls' = cancelCalls + 1
    /\ pc' = "shutdown"
    /\ idx' = 1
    /\ UNCHANGED <<config, actors, exec, ret, intr, execCalls, intrCalls,
                   runCh, closeCh, actorResults, err, waitCount, cnt,
                   closeCtxDone, chClosed, panicked, result, firstQ,
                   firstExit, intrArg, intrErr, parent, registry,
                   log, aliveResult, helpers>>

\* A loop over the actors that stops one actor short.
AfterIterationEarly(k, next) == IF k >= N - 1 THEN next ELSE pc

\* The position of the Run goroutine after iteration k of a loop over the
\* actors that is followed by position next.
AfterIteration(k, next) == IF k = N THEN next ELSE pc

\* The loop over g.actors leaving out, when syncShutdown is set, the interrupt
\* of an actor whose execute has returned already.
run_Shutdown_SyncSkipsExited ==
    /\ variant = "ctx"
    /\ pc = "shutdown"
    /\ idx \in Actors
    /\ intr[idx] = "idle"
    /\ IF Synchronous /\ exec[idx] = "done"
       THEN /\ intr' = [intr EXCEPT ![idx] = "done"]
            /\ closeCh' = closeCh + 1
            /\ idx' = idx + 1
            /\ pc' = AfterIteration(idx, "waitClose")
            /\ cnt' = IF idx = N THEN CloseFrom ELSE cnt
            /\ UNCHANGED intrCalls
       ELSE /\ intr' = [intr EXCEPT ![idx] = "running"]
            /\ intrCalls' = [intrCalls EXCEPT ![idx] = @ + 1]
            /\ UNCHANGED closeCh
            /\ IF Synchronous
               THEN UNCHANGED <<idx, pc, cnt>>
               ELSE /\ idx' = idx + 1
                    /\ pc' = AfterIteration(idx, "waitClose")
                    /\ cnt' = IF idx = N THEN CloseFrom ELSE cnt
    /\ UNCHANGED <<config, actors, exec, ret, execCalls, runCh,
                   actorResults, err, waitCount, ctxState, chClosed,
                   panicked, result, firstQ, firstExit, intrArg, intrErr,
                   parent, registry, log, aliveResult, helpers>>

\* One iteration of the loop over g.actors: shutdown(a) is called on the Run
\* goroutine when syncShutdown is set (the loop goes on when it returns), and
\* in a goroutine of its own otherwise.  Either way a.interrupt(closeCtx) is
\* invoked.
run_Shutdown ==
    /\ variant = "ctx"
    /\ pc = "shutdown"
    /\ idx \in Actors
    /\ intr[idx] = "idle"
    /\ intr' = [intr EXCEPT ![idx] = "running"]
    /\ intrCalls' = [intrCalls EXCEPT ![idx] = @ + 1]
    /\ log' = Logs(idx, "started", "close")
    /\ IF Synchronous
       THEN UNCHANGED <<idx, pc, cnt>>
       ELSE /\ idx' = idx + 1
            /\ pc' = AfterIteration(idx, "waitClose")
            /\ cnt' = IF idx = N THEN CloseFrom ELSE cnt
    /\ UNCHANGED <<config, actors, exec, ret, execCalls, runCh, closeCh,
                   actorResults, err, waitCount, ctxState, chClosed,
                   panicked, result, firstQ,
                   firstExit, intrArg, intrErr, parent, registry, aliveResult, helpers>>

\* shutdown keeping a non-nil error of the interrupt as the error of Run.
shutdown_Returns_Reporting(a, e) ==
    /\ variant = "ctx"
    /\ a \in Actors
    /\ intr[a] = "running"
    /\ chClosed \/ closeCh < ChanCap
    /\ intr' = [intr EXCEPT ![a] = "done"]
    /\ intrErr' = [intrErr EXCEPT ![a] = <<e>>]
    /\ err' = IF e # Nil THEN e ELSE err
    /\ IF chClosed
       THEN panicked' = TRUE /\ UNCHANGED closeCh
       ELSE closeCh' = closeCh + 1 /\ UNCHANGED panicked
    /\ IF Synchronous
       THEN /\ idx' = idx + 1
            /\ pc' = AfterIteration(idx, "waitClose")
            /\ cnt' = IF idx = N THEN CloseFrom ELSE cnt
       ELSE UNCHANGED <<idx, pc, cnt>>
    /\ UNCHANGED <<config, actors, exec, ret, execCalls, intrCalls, runCh,
                   actorResults, waitCount, ctxState, chClosed, result,
                   firstQ, firstExit, intrArg, parent, registry,
                   log, aliveResult, helpers>>

\* a.interrupt(closeCtx) returns e, which shutdown drops, and shutdown sends
\* closeCh <- struct{}{}.  With syncShutdown the Run goroutine was inside this
\* call and moves to the next iteration.
shutdown_Returns(a, e) ==
    /\ variant = "ctx"
    /\ a \in Actors
    /\ intr[a] = "running"
    /\ chClosed \/ closeCh < ChanCap
    /\ intr' = [intr EXCEPT ![a] = "done"]
    /\ intrErr' = [intrErr EXCEPT ![a] = <<e>>]
    /\ log' = Logs(a, "returned", "close")
    /\ IF chClosed
       THEN panicked' = TRUE /\ UNCHANGED closeCh
       ELSE closeCh' = closeCh + 1 /\ UNCHANGED panicked
    /\ IF Synchronous
       THEN /\ idx' = idx + 1
            /\ pc' = AfterIteration(idx, "waitClose")
            /\ cnt' = IF idx = N THEN CloseFrom ELSE cnt
       ELSE UNCHANGED <<idx, pc, cnt>>
    /\ UNCHANGED <<config, actors, exec, ret, execCalls, intrCalls, runCh,
                   actorResults, err, waitCount, ctxState, chClosed, result,
                   firstQ, firstExit, intrArg, parent, registry, aliveResult, helpers>>

\* a.interrupt(closeCtx) returns nil.
shutdown_Return(a) == shutdown_Returns(a, Nil)

\* The deadline of closeCtx passes.
closeCtx_Deadline ==
    /\ variant = "ctx"
    /\ closeTimeout # 0
    /\ pc \in {"shutdown", "waitClose", "waitRun"}
    /\ ~closeCtxDone
    /\ closeCtxDone' = TRUE
    /\ UNCHANGED <<config, actors, pc, exec, ret, intr, execCalls, intrCalls,
                   runCh, closeCh, actorResults, runLocals, runCtxDone,
                   cancelCalls, chClosed, panicked, result, firstQ,
                   firstExit, intrArg, intrErr, parent, registry,
                   log, aliveResult, helpers>>

\* The loop that waits for the Close notifications, left as soon as closeCtx
\* is done.
run_WaitClose_Preempted ==
    /\ variant = "ctx"
    /\ pc = "waitClose"
    /\ cnt < ChanCap
    /\ \/ /\ closeCh > 0
          /\ closeCh' = closeCh - 1
          /\ cnt' = IF cnt + 1 < ChanCap THEN cnt + 1 ELSE DrainFrom
          /\ pc' = IF cnt + 1 < ChanCap THEN pc ELSE "waitRun"
       \/ /\ closeCtxDone
          /\ cnt' = DrainFrom
          /\ pc' = "waitRun"
          /\ UNCHANGED closeCh
    /\ UNCHANGED <<config, actors, exec, ret, intr, execCalls, intrCalls,
                   runCh, actorResults, err, waitCount, idx, ctxState,
                   chClosed, panicked, result, firstQ, firstExit, intrArg,
                   intrErr, parent, registry, log, aliveResult, helpers>>

\* for i := 0; i < cap(closeCh); i++ { <-closeCh }
run_WaitClose ==
    /\ variant = "ctx"
    /\ pc = "waitClose"
    /\ cnt < ChanCap
    /\ closeCh > 0
    /\ closeCh' = closeCh - 1
    /\ cnt' = IF cnt + 1 < ChanCap THEN cnt + 1 ELSE DrainFrom
    /\ pc' = IF cnt + 1 < ChanCap THEN pc ELSE "waitRun"
    /\ UNCHANGED <<config, actors, exec, ret, intr, execCalls, intrCalls,
                   runCh, actorResults, err, waitCount, idx, ctxState,
                   chClosed, panicked, result, firstQ,
                   firstExit, intrArg, intrErr, parent, registry,
                   log, aliveResult, helpers>>

\* The loop that waits for the remaining actors, assigning each result to err.
run_WaitRun_Overwriting ==
    /\ variant = "ctx"
    /\ pc = "waitRun"
    /\ cnt < ChanCap
    /\ runCh # <<>>
    /\ err' = Head(runCh)
    /\ runCh' = Tail(runCh)
    /\ cnt' = cnt + 1
    /\ UNCHANGED <<config, actors, pc, exec, ret, intr, execCalls, intrCalls,
                   closeCh, actorResults, waitCount, idx, ctxState, chClosed,
                   panicked, result, firstQ,
                   firstExit, intrArg, intrErr, parent, registry,
                   log, aliveResult, helpers>>

\* for i := 1; i < cap(runCh); i++ { <-runCh }
run_WaitRun ==
    /\ variant = "ctx"
    /\ pc = "waitRun"
    /\ cnt < ChanCap
    /\ runCh # <<>>
    /\ runCh' = Tail(runCh)
    /\ cnt' = cnt + 1
    /\ UNCHANGED <<config, actors, pc, exec, ret, intr, execCalls, intrCalls,
                   closeCh, actorResults, err, waitCount, idx, ctxState,
                   chClosed, panicked, result, firstQ,
                   firstExit, intrArg, intrErr, parent, registry,
                   log, aliveResult, helpers>>

\* group.run letting go of the registered components when it returns.
run_Return_Releasing ==
    /\ variant = "ctx"
    /\ pc = "waitRun"
    /\ ~(cnt < ChanCap)
    /\ result' = <<err>>
    /\ pc' = "returned"
    /\ chClosed' = TRUE
    /\ closeCtxDone' = (closeTimeout # 0)
    /\ runnables' = <<>>
    /\ UNCHANGED <<config, actors, exec, ret, intr, execCalls, intrCalls,
                   runCh, closeCh, actorResults, runLocals, runCtxDone,
                   cancelCalls, panicked, firstQ, firstExit, intrArg, intrErr,
                   parent, alive, lastAdd, log, aliveResult, helpers>>

\* return err, then the deferred close(closeCh), cancel() of closeCtx and
\* close(runCh).
run_Return ==
    /\ variant = "ctx"
    /\ pc = "waitRun"
    /\ ~(cnt < ChanCap)
    /\ result' = <<err>>
    /\ pc' = "returned"
    /\ chClosed' = TRUE
    /\ closeCtxDone' = (closeTimeout # 0)
    /\ UNCHANGED <<config, actors, exec, ret, intr, execCalls, intrCalls,
                   runCh, closeCh, actorResults, runLocals, runCtxDone,
                   cancelCalls, panicked, firstQ,
                   firstExit, intrArg, intrErr, parent, registry,
                   log, aliveResult, helpers>>

-----------------------------------------------------------------------------
(* Group.Run: the function-pair runner with sidecar actors *)

\* if len(g.actors) == 0 { return nil }; otherwise make the result channel,
\* start one goroutine per actor and set waitCount := len(g.actors).
Run_Start ==
    /\ variant = "sidecar"
    /\ pc = "idle"
    /\ IF N = 0
       THEN /\ pc' = "returned"
            /\ result' = <<Nil>>
            /\ UNCHANGED <<exec, execCalls, waitCount>>
       ELSE /\ pc' = "waitFirst"
            /\ exec' = [a \in Actors |-> "running"]
            /\ execCalls' = [a \in Actors |-> execCalls[a] + 1]
            /\ waitCount' = N
            /\ UNCHANGED result
    /\ UNCHANGED <<config, actors, ret, intr, intrCalls, runCh, closeCh,
                   actorResults, err, idx, cnt, ctxState, chClosed, panicked,
                   firstQ,
                   firstExit, intrArg, intrErr, parent, registry,
                   log, aliveResult, helpers>>

\* The goroutine of actor a: the result of a.execute() is sent, tagged with
\* a.sidecar.
Run_Actor(a) ==
    /\ variant = "sidecar"
    /\ a \in Actors
    /\ MayReturn(a)
    /\ Len(actorResults) < ChanCap
    /\ \E e \in ExecuteErrors(a) :
         LET r == [sidecar |-> actors[a].sidecar, err |-> e] IN
         /\ ret' = [ret EXCEPT ![a] = <<e>>]
         /\ firstQ' = NoteCompletion(r)
         /\ firstExit' = NoteExit(r)
         /\ actorResults' = Append(actorResults, r)
         /\ sigCh' = IF a \in SignalHandlers /\ e # Canceled
                     THEN <<>>
                     ELSE sigCh
    /\ exec' = [exec EXCEPT ![a] = "done"]
    /\ UNCHANGED <<config, actors, pc, intr, execCalls, intrCalls, runCh,
                   closeCh, runLocals, ctxState, chClosed, panicked, result,
                   intrArg, intrErr, parent, registry,
                   log, aliveResult, sigNotify, sigGot, sigFirst, upgrader,
                   reaper>>

\* One iteration of for waitCount > 0 { ... }: a sidecar that returned nil is
\* counted off and the loop goes on (until no actor is left to wait for); any
\* other result sets err and leaves the loop.
Run_Wait ==
    /\ variant = "sidecar"
    /\ pc = "waitFirst"
    /\ LoopGoesOn(waitCount)
    /\ actorResults # <<>>
    /\ LET r == Head(actorResults) IN
         IF Benign(r)
         THEN /\ waitCount' = waitCount - 1
              /\ pc' = IF LoopGoesOn(waitCount - 1) THEN pc ELSE "shutdown"
              /\ idx' = IF LoopGoesOn(waitCount - 1) THEN idx ELSE 1
              /\ UNCHANGED err
         ELSE /\ err' = r.err
              /\ pc' = "shutdown"
              /\ idx' = 1
              /\ UNCHANGED waitCount
    /\ actorResults' = Tail(actorResults)
    /\ UNCHANGED <<config, actors, exec, ret, intr, execCalls, intrCalls,
                   runCh, closeCh, cnt, ctxState, chClosed, panicked, result,
                   firstQ,
                   firstExit, intrArg, intrErr, parent, registry,
                   log, aliveResult, helpers>>

\* The interrupt loop starting each a.interrupt(err) in a goroutine of its
\* own: any actor not yet interrupted may be next.
Run_Interrupt_Concurrent ==
    /\ variant = "sidecar"
    /\ pc = "shutdown"
    /\ \E a \in Actors :
         /\ intr[a] = "idle"
         /\ intr' = [intr EXCEPT ![a] = "running"]
         /\ intrCalls' = [intrCalls EXCEPT ![a] = @ + 1]
         /\ intrArg' = [intrArg EXCEPT ![a] = <<InterruptArg>>]
    /\ UNCHANGED <<config, actors, pc, exec, ret, execCalls, runCh, closeCh,
                   actorResults, runLocals, ctxState, chClosed, panicked,
                   result, firstQ, firstExit, intrErr, parent, registry,
                   log, aliveResult, helpers>>

\* One iteration of for _, a := range g.actors { a.interrupt(err) }: the
\* call, made on the Run goroutine.
Run_Interrupt ==
    /\ variant = "sidecar"
    /\ pc = "shutdown"
    /\ idx \in Actors
    /\ intr[idx] = "idle"
    /\ intr' = [intr EXCEPT ![idx] = "running"]
    /\ intrCalls' = [intrCalls EXCEPT ![idx] = @ + 1]
    /\ intrArg' = [intrArg EXCEPT ![idx] = <<InterruptArg>>]
    /\ UNCHANGED <<config, actors, pc, exec, ret, execCalls, runCh, closeCh,
                   actorResults, runLocals, ctxState, chClosed, panicked,
                   result, firstQ, firstExit, intrErr, parent, registry,
                   log, aliveResult, helpers>>

\* The interrupt of GracefulRestart without its call of upg.Stop().
StopCallsNone == upgStops

\* cancel(); upg.Stop(): the calls of upg.Stop() after the interrupt of
\* GracefulRestart.
StopCalls == upgStops + 1

\* a.interrupt(err) returns; the loop moves to the next actor, or on to the
\* loop that waits for the actors still running.
interrupt_Return(a) ==
    /\ variant = "sidecar"
    /\ a \in Actors
    /\ intr[a] = "running"
    /\ intr' = [intr EXCEPT ![a] = "done"]
    /\ idx' = idx + 1
    /\ pc' = AfterIteration(idx, "waitRun")
    /\ cnt' = IF idx = N THEN DrainFrom ELSE cnt
    /\ upgStops' = IF a \in Restarters THEN StopCalls ELSE upgStops
    /\ UNCHANGED <<config, actors, exec, ret, execCalls, intrCalls, runCh,
                   closeCh, actorResults, err, waitCount, ctxState, chClosed,
                   panicked, result, firstQ,
                   firstExit, intrArg, intrErr, parent, registry,
                   log, aliveResult, signal, upgReady, upgExit, upgExitFirst,
                   reaper>>

\* The loop that waits for the remaining actors keeping each result's error.
Run_Drain_Overwriting ==
    /\ variant = "sidecar"
    /\ pc = "waitRun"
    /\ cnt < waitCount
    /\ actorResults # <<>>
    /\ err' = Head(actorResults).err
    /\ actorResults' = Tail(actorResults)
    /\ cnt' = cnt + 1
    /\ UNCHANGED <<config, actors, pc, exec, ret, intr, execCalls, intrCalls,
                   runCh, closeCh, waitCount, idx, ctxState, chClosed,
                   panicked, result, firstQ, firstExit, intrArg, intrErr,
                   parent, registry,
                   log, aliveResult, helpers>>

\* for i := 1; i < waitCount; i++ { <-results }
Run_Drain ==
    /\ variant = "sidecar"
    /\ pc = "waitRun"
    /\ cnt < waitCount
    /\ actorResults # <<>>
    /\ actorResults' = Tail(actorResults)
    /\ cnt' = cnt + 1
    /\ UNCHANGED <<config, actors, pc, exec, ret, intr, execCalls, intrCalls,
                   runCh, closeCh, err, waitCount, idx, ctxState, chClosed,
                   panicked, result, firstQ,
                   firstExit, intrArg, intrErr, parent, registry,
                   log, aliveResult, helpers>>

\* return err
Run_Return ==
    /\ variant = "sidecar"
    /\ pc = "waitRun"
    /\ ~(cnt < waitCount)
    /\ result' = <<err>>
    /\ pc' = "returned"
    /\ UNCHANGED <<config, actors, exec, ret, intr, execCalls, intrCalls,
                   runCh, closeCh, actorResults, runLocals, ctxState,
                   chClosed, panicked, firstQ,
                   firstExit, intrArg, intrErr, parent, registry,
                   log, aliveResult, helpers>>

\* The owner of the context given to ContextHandler cancels it.
ParentCancel ==
    /\ variant = "sidecar"
    /\ ~parentDone
    /\ parentDone' = TRUE
    /\ parentEarly' = \A a \in Actors : exec[a] # "done"
    /\ UNCHANGED <<config, actors, pc, exec, ret, intr, execCalls, intrCalls,
                   runCh, closeCh, actorResults, runLocals, ctxState,
                   chClosed, panicked, result, firstQ, firstExit, intrArg,
                   intrErr, registry,
                   log, aliveResult, helpers>>

\* Group.Add(SignalHandler(ctx, signals...)) or
\* Group.Add(GracefulRestart(ctx, upg)): one such actor in the group.
AddHelper(max, e) ==
    /\ \A a \in Actors : actors[a].execute # e
    /\ Add(max, e)

\* c := make(chan os.Signal, 1); signal.Notify(c, signals...)
SignalHandler_Notify(a) ==
    /\ variant = "sidecar"
    /\ a \in SignalHandlers
    /\ exec[a] = "running"
    /\ ~sigNotify
    /\ sigNotify' = TRUE
    /\ UNCHANGED <<config, actors, pc, exec, ret, intr, execCalls, intrCalls,
                   runCh, closeCh, actorResults, runLocals, ctxState,
                   chClosed, panicked, result, firstQ, firstExit, intrArg,
                   intrErr, parent, registry, log, aliveResult, sigCh,
                   sigGot, sigFirst, upgrader, reaper>>

\* The process receives signal sig.  Package signal hands it to c if it is
\* one of the signals of Notify, between Notify and the deferred
\* signal.Stop(c), and if c has room; otherwise c never sees it.
Signal(sig) ==
    /\ variant = "sidecar"
    /\ \E a \in SignalHandlers :
         IF sigNotify /\ exec[a] = "running" /\ sig \in Watched /\ sigCh = <<>>
         THEN /\ sigCh' = <<sig>>
              /\ sigGot' = <<sig>>
              /\ sigFirst' = ~CtxDone(a)
         ELSE UNCHANGED <<sigCh, sigGot, sigFirst>>
    /\ UNCHANGED <<config, actors, pc, exec, ret, intr, execCalls, intrCalls,
                   runCh, closeCh, actorResults, runLocals, ctxState,
                   chClosed, panicked, result, firstQ, firstExit, intrArg,
                   intrErr, parent, registry, log, aliveResult, sigNotify,
                   upgrader, reaper>>

\* err := upg.Ready(), which succeeds or fails.
GracefulRestart_Ready(a, ok) ==
    /\ variant = "sidecar"
    /\ a \in Restarters
    /\ exec[a] = "running"
    /\ upgReady = "notCalled"
    /\ upgReady' = IF ok THEN "ok" ELSE "failed"
    /\ UNCHANGED <<config, actors, pc, exec, ret, intr, execCalls, intrCalls,
                   runCh, closeCh, actorResults, runLocals, ctxState,
                   chClosed, panicked, result, firstQ, firstExit, intrArg,
                   intrErr, parent, registry, log, aliveResult, signal,
                   upgExit, upgExitFirst, upgStops, reaper>>

\* The channel upg.Exit() fires: the upgrader is done.
Upgrader_Exit ==
    /\ variant = "sidecar"
    /\ ~upgExit
    /\ upgExit' = TRUE
    /\ upgExitFirst' = \A a \in Restarters : ~CtxDone(a)
    /\ UNCHANGED <<config, actors, pc, exec, ret, intr, execCalls, intrCalls,
                   runCh, closeCh, actorResults, runLocals, ctxState,
                   chClosed, panicked, result, firstQ, firstExit, intrArg,
                   intrErr, parent, registry, log, aliveResult, signal,
                   upgReady, upgStops, reaper>>

-----------------------------------------------------------------------------
(* The Runnable group: Add and Alive over named components *)

\* The argument lists of one call of Add: up to max components.
ArgLists(max) == UNION {[1..n -> Components] : n \in 0..max}

\* n copies of x, as a sequence.
Times(n, x) == [k \in 1..n |-> x]

\* for _, r := range rs { seq = append(seq, r) }
RECURSIVE AddEach(_, _)
AddEach(seq, rs) ==
    IF rs = <<>> THEN seq ELSE AddEach(Append(seq, Head(rs)), Tail(rs))

\* for _, r := range rs { if !r.Alive() { return false } }; return true
RECURSIVE AliveOf(_)
AliveOf(rs) ==
    IF rs = <<>>
    THEN TRUE
    ELSE IF ~alive[Head(rs)] THEN FALSE ELSE AliveOf(Tail(rs))

\* Alive asking the first registered component only.
Group_Alive_FirstOnly == runnables = <<>> \/ alive[Head(runnables)]

\* Group.Alive()
Group_Alive == AliveOf(runnables)

\* Add without its test of the condition.
SkippedNever(when) == FALSE

\* if !when { return }
Skipped(when) == ~when

\* Group.Add(when, rs...): unless skipped, g.add(r) for each r in turn, which
\* appends r to g.runnables and registers one actor with g.group.add.
Group_Add(when, rs) ==
    /\ variant = "ctx"
    /\ pc = "idle"
    /\ when => Len(runnables) + Len(rs) <= MaxRunnables
    /\ lastAdd' = <<[when |-> when, rs |-> rs, runnables |-> runnables,
                     actors |-> actors]>>
    /\ IF Skipped(when)
       THEN UNCHANGED <<runnables, actors, exec, ret, intr, execCalls,
                        intrCalls, intrArg, intrErr>>
       ELSE LET n == Len(rs) IN
            /\ runnables' = AddEach(runnables, rs)
            /\ actors' = AddEach(actors,
                    Times(n, [execute |-> "returns", sidecar |-> FALSE]))
            /\ exec' = AddEach(exec, Times(n, "idle"))
            /\ ret' = AddEach(ret, Times(n, <<>>))
            /\ intr' = AddEach(intr, Times(n, "idle"))
            /\ execCalls' = AddEach(execCalls, Times(n, 0))
            /\ intrCalls' = AddEach(intrCalls, Times(n, 0))
            /\ intrArg' = AddEach(intrArg, Times(n, <<>>))
            /\ intrErr' = AddEach(intrErr, Times(n, <<>>))
    /\ UNCHANGED <<config, pc, runCh, closeCh, actorResults, runLocals,
                   ctxState, chClosed, panicked, result, firstQ, firstExit,
                   parent, alive,
                   log, aliveResult, helpers>>

\* Component c, whose type has an Alive method of its own, starts to report
\* the opposite liveness.
Toggle(c) ==
    /\ "Alive" \in Overrides(c)
    /\ alive' = [alive EXCEPT ![c] = ~@]
    /\ UNCHANGED <<config, actors, pc, exec, ret, intr, execCalls, intrCalls,
                   runCh, closeCh, actorResults, runLocals, ctxState,
                   chClosed, panicked, result, firstQ, firstExit, intrArg,
                   intrErr, parent, runnables, lastAdd,
                   log, aliveResult, helpers>>

\* The function that wraps r.Run begins: logger.Info("started", "method",
\* "run"), in the goroutine group.run started for the actor.
Runnable_Started(a) ==
    /\ variant = "ctx"
    /\ a \in Actors
    /\ Logged(a)
    /\ exec[a] = "running"
    /\ ~Written(a, "started", "run")
    /\ log' = Logs(a, "started", "run")
    /\ UNCHANGED <<config, actors, pc, exec, ret, intr, execCalls, intrCalls,
                   runCh, closeCh, actorResults, runLocals, ctxState,
                   chClosed, panicked, result, firstQ, firstExit, intrArg,
                   intrErr, parent, registry, aliveResult, helpers>>

\* Group.Alive() is called and returns.
Group_AliveCall ==
    /\ aliveResult' = <<Group_Alive>>
    /\ UNCHANGED <<config, actors, pc, exec, ret, intr, execCalls, intrCalls,
                   runCh, closeCh, actorResults, runLocals, ctxState,
                   chClosed, panicked, result, firstQ, firstExit, intrArg,
                   intrErr, parent, registry, log, helpers>>

-----------------------------------------------------------------------------
(* contrib/waitgroup: the wait-group reaper *)

\* The counter of w.wg: the tasks added and not yet done.
Counter == Cardinality({t \in Tasks : wg[t] = "outstanding"})

\* w.wg.Wait() returning whatever the counter is.
wg_WaitUnblockedAlways == TRUE

\* w.wg.Wait() returns once the counter is zero.
wg_WaitUnblocked == Counter = 0

\* Everything but the reaper and its wait group.
notReaper ==
    <<config, actors, pc, exec, ret, intr, execCalls, intrCalls, runCh,
      closeCh, actorResults, runLocals, ctxState, chClosed, panicked, result,
      firstQ, firstExit, intrArg, intrErr, parent, registry, log, aliveResult,
      signal, upgrader>>

\* wg.Add(1) for task t.  sync.WaitGroup asks that an Add that finds the
\* counter at zero happens before Wait is called.
wg_Add(t) ==
    /\ wg[t] = "new"
    /\ Counter = 0 => waitPc \in {"idle", "waitDone"}
    /\ wg' = [wg EXCEPT ![t] = "outstanding"]
    /\ UNCHANGED <<notReaper, waitPc, done>>

\* wg.Done() of task t
wg_Done(t) ==
    /\ wg[t] = "outstanding"
    /\ wg' = [wg EXCEPT ![t] = "finished"]
    /\ UNCHANGED <<notReaper, waitPc, done>>

\* wait.Run is called and blocks in <-w.done.
wait_Run ==
    /\ waitPc = "idle"
    /\ waitPc' = "waitDone"
    /\ UNCHANGED <<notReaper, done, wg>>

\* wait.Close: close(w.done)
wait_Close ==
    /\ ~done
    /\ done' = TRUE
    /\ UNCHANGED <<notReaper, waitPc, wg>>

\* <-w.done returns, w.done being closed, and wait.Run calls w.wg.Wait().
wait_Done ==
    /\ waitPc = "waitDone"
    /\ done
    /\ waitPc' = "waitGroup"
    /\ UNCHANGED <<notReaper, done, wg>>

\* w.wg.Wait() returns and wait.Run returns nil.
wait_Return ==
    /\ waitPc = "waitGroup"
    /\ wg_WaitUnblocked
    /\ waitPc' = "returned"
    /\ UNCHANGED <<notReaper, done, wg>>

-----------------------------------------------------------------------------
(* Specifications *)

\* The steps of the Run goroutine once Run has been called.
RunStep ==
    \/ run_RecvFirst
    \/ run_Cancel
    \/ run_Shutdown
    \/ run_WaitClose
    \/ run_WaitRun
    \/ run_Return
    \/ Run_Wait
    \/ Run_Interrupt
    \/ Run_Drain
    \/ Run_Return

\* The caller's steps: registration of up to max actors, then the call of Run.
Caller(max) ==
    \/ \E e \in ExecuteKinds : add(max, e)
    \/ \E e \in ExecuteKinds : Add(max, e)
    \/ \E e \in ExecuteKinds : AddSidecar(max, e)
    \/ run_Start
    \/ Run_Start

\* The steps of the other goroutines, and the clock.
ActorStep ==
    \/ \E a \in Actors : run_Actor(a)
    \/ \E a \in Actors : shutdown_Return(a)
    \/ \E a \in Actors : Run_Actor(a)
    \/ \E a \in Actors : interrupt_Return(a)
    \/ closeCtx_Deadline

Next == Caller(MaxActors) \/ RunStep \/ ActorStep

Spec == Init /\ [][Next]_vars

\* The same program with at most MaxFairActors actors.
NextFair == Caller(MaxFairActors) \/ RunStep \/ ActorStep

\* Go's scheduler lets every runnable goroutine run: the Run goroutine takes
\* its next step when it can.  The callbacks are the caller's code; what is
\* assumed of them is what Add documents: an interrupt returns, and an execute
\* returns once it has been told to stop.
Fairness ==
    /\ WF_vars(RunStep)
    /\ \A a \in 1..(MaxFairActors + 1) :
         /\ WF_vars(shutdown_Return(a))
         /\ WF_vars(interrupt_Return(a))
         /\ WF_vars(a \in Actors /\ ToldToStop(a) /\ run_Actor(a))
         /\ WF_vars(a \in Actors /\ ToldToStop(a) /\ Run_Actor(a))

FairSpec == Init /\ [][NextFair]_vars /\ Fairness

\* group.run with interrupts that return nil or an error of their own.
CloseInit == Init /\ variant = "ctx"

CloseNext ==
    \/ \E e \in ExecuteKinds : add(MaxCloseActors, e)
    \/ run_Start
    \/ \E a \in Actors : run_Actor(a)
    \/ run_RecvFirst
    \/ run_Cancel
    \/ run_Shutdown
    \/ \E a \in Actors : \E e \in CloseErrorsOf(a) : shutdown_Returns(a, e)
    \/ closeCtx_Deadline
    \/ run_WaitClose
    \/ run_WaitRun
    \/ run_Return

CloseSpec == CloseInit /\ [][CloseNext]_vars

\* Group.Run with ContextHandler actors among the regular ones.
HandlerInit == Init /\ variant = "sidecar"

HandlerNext ==
    \/ \E e \in HandlerKinds : Add(MaxHandlerActors, e)
    \/ \E e \in ExecuteKinds : AddSidecar(MaxHandlerActors, e)
    \/ ParentCancel
    \/ Run_Start
    \/ \E a \in Actors : Run_Actor(a)
    \/ Run_Wait
    \/ Run_Interrupt
    \/ \E a \in Actors : interrupt_Return(a)
    \/ Run_Drain
    \/ Run_Return

HandlerSpec == HandlerInit /\ [][HandlerNext]_vars

\* The steps of Group.Run and of its goroutines.
SidecarRun ==
    \/ ParentCancel
    \/ Run_Start
    \/ \E a \in Actors : Run_Actor(a)
    \/ Run_Wait
    \/ Run_Interrupt
    \/ \E a \in Actors : interrupt_Return(a)
    \/ Run_Drain
    \/ Run_Return

\* Group.Run with a SignalHandler actor among the regular ones.
SignalInit == Init /\ variant = "sidecar"

SignalNext ==
    \/ AddHelper(MaxSignalActors, "signalHandler")
    \/ \E e \in ExecuteKinds : Add(MaxSignalActors, e)
    \/ \E a \in Actors : SignalHandler_Notify(a)
    \/ \E sig \in Signals : Signal(sig)
    \/ SidecarRun

SignalSpec == SignalInit /\ [][SignalNext]_vars

\* Group.Run with a GracefulRestart actor among the regular ones.
RestartInit == Init /\ variant = "sidecar"

RestartNext ==
    \/ AddHelper(MaxRestartActors, "gracefulRestart")
    \/ \E e \in ExecuteKinds : Add(MaxRestartActors, e)
    \/ \E a \in Actors, ok \in BOOLEAN : GracefulRestart_Ready(a, ok)
    \/ Upgrader_Exit
    \/ SidecarRun

RestartSpec == RestartInit /\ [][RestartNext]_vars

\* The wait-group reaper with the tasks counted in its wait group.
WaitNext ==
    \/ \E t \in Tasks : wg_Add(t)
    \/ \E t \in Tasks : wg_Done(t)
    \/ wait_Run
    \/ wait_Close
    \/ wait_Done
    \/ wait_Return

WaitInit == Init /\ variant = "ctx" /\ closeTimeout = 0 /\ ~syncShutdown

WaitSpec == WaitInit /\ [][WaitNext]_vars

\* The Runnable group before Run: calls of Add, and components whose
\* liveness changes.
RegInit == Init /\ variant = "ctx"

RegNext ==
    \/ \E when \in BOOLEAN, rs \in ArgLists(MaxArgs) : Group_Add(when, rs)
    \/ \E c \in Components : Toggle(c)

RegSpec == RegInit /\ [][RegNext]_vars

\* The steps of group.run and of its goroutines for actors registered by the
\* Runnable group.
RunnableRun ==
    \/ run_Start
    \/ \E a \in Actors : Runnable_Started(a)
    \/ \E a \in Actors : run_Actor(a)
    \/ run_RecvFirst
    \/ run_Cancel
    \/ run_Shutdown
    \/ \E a \in Actors : shutdown_Return(a)
    \/ closeCtx_Deadline
    \/ run_WaitClose
    \/ run_WaitRun
    \/ run_Return

\* The Runnable group from registration to the return of Run.
LogNext ==
    \/ \E c \in Components :
           /\ Len(runnables) < MaxRunning
           /\ Group_Add(TRUE, <<c>>)
    \/ RunnableRun

LogSpec == RegInit /\ [][LogNext]_vars

\* The same with calls of Alive and changes of liveness at any moment.
AliveNext ==
    \/ \E c \in Components :
           /\ Len(runnables) < MaxAliveRunning
           /\ Group_Add(TRUE, <<c>>)
    \/ \E k \in DOMAIN runnables : Toggle(runnables[k])
    \/ Group_AliveCall
    \/ RunnableRun

AliveInit == RegInit /\ ~syncShutdown

AliveSpec == AliveInit /\ [][AliveNext]_vars

-----------------------------------------------------------------------------
(* Vocabulary of the properties *)

Returned == pc = "returned"

\* Run has received the result that ended its first wait.
PastFirstWait == pc \in {"cancel", "shutdown", "waitClose", "waitRun", "returned"}

\* The loop that invokes the interrupts is over.
PastInterruptLoop == pc \in {"waitClose", "waitRun", "returned"}

\* The results that have been sent and not yet received.
Pending ==
    IF variant = "ctx"
    THEN {[sidecar |-> FALSE, err |-> runCh[k]] : k \in DOMAIN runCh}
    ELSE {actorResults[k] : k \in DOMAIN actorResults}

\* The completion of actor a, once its execute has returned.
Completion(a) == [sidecar |-> actors[a].sidecar, err |-> ret[a][1]]

\* Some completion that is not a sidecar returning nil has occurred.
QualifyingCompletionOccurred ==
    \E a \in Actors :
        /\ exec[a] = "done"
        /\ ~(Completion(a).sidecar /\ Completion(a).err = Nil)

AllInterruptedOnce == \A a \in Actors : intrCalls[a] = 1
AllInterruptsReturned == \A a \in Actors : intr[a] = "done"

-----------------------------------------------------------------------------
(* Properties *)

\* C1: in a group with at least one actor, once Run is past its first wait
\* its err is the error of the first qualifying completion (the first
\* completion that is not a sidecar returning nil), it stays so through
\* every later completion, and it is the value Run returns.
C1_ReturnsFirstQualifyingError ==
    (N >= 1 /\ firstQ # <<>>) =>
        /\ PastFirstWait => err = firstQ[1].err
        /\ Returned => result = <<firstQ[1].err>>

\* Run has returned the error of actor 2 although actor 1 returned its own
\* error too and the sidecar actor 3 returned nil.
C1_Witness ==
    /\ variant = "sidecar"
    /\ Returned
    /\ N = 3
    /\ actors[3].sidecar
    /\ ret = << <<1>>, <<2>>, <<Nil>> >>
    /\ result = <<2>>

\* C2: when Run has returned, every registered actor's execute has returned
\* and every one of the N results has been received (none is left in the
\* channel).
C2_ReturnsAfterAllActorsExited ==
    Returned =>
        /\ \A a \in Actors : exec[a] = "done" /\ ret[a] # <<>>
        /\ runCh = <<>>
        /\ actorResults = <<>>

\* Run has returned from a group of three in which one sidecar finished with
\* nil before the triggering actor did.
C2_Witness ==
    /\ variant = "sidecar"
    /\ Returned
    /\ N = 3
    /\ waitCount = 2
    /\ result = <<3>>

\* C3: no execute and no interrupt is ever invoked twice; once Run has been
\* called with N >= 1 actors every execute has been invoked once; once the
\* loop over the actors is over, and so when Run has returned, every
\* interrupt has been invoked once.
C3_ExecuteAndInterruptOnce ==
    /\ \A a \in Actors : execCalls[a] <= 1 /\ intrCalls[a] <= 1
    /\ pc # "idle" => \A a \in Actors : execCalls[a] = 1
    /\ (N >= 1 /\ PastInterruptLoop) => AllInterruptedOnce

\* The interrupt of an actor is being invoked although its execute returned
\* before: the sidecar actor 1, which finished with nil earlier, and the
\* triggering actor 2 have been interrupted, a third actor still runs.
C3_Witness ==
    /\ variant = "sidecar"
    /\ N = 3
    /\ actors[1].sidecar
    /\ ret[1] = <<Nil>>
    /\ waitCount = 2
    /\ intrCalls = <<1, 1, 0>>
    /\ exec = <<"done", "done", "running">>

\* C4: without a close timeout, when group.run has returned every actor's
\* interrupt has returned; with actor 1 returning its error at once and actor
\* 2 blocking until its interrupt is called, Run returns the error of actor 1.
C4_ReturnsAfterInterruptsReturned ==
    (variant = "ctx" /\ closeTimeout = 0 /\ Returned) =>
        /\ AllInterruptsReturned
        /\ ~panicked
        /\ (/\ N = 2
            /\ actors[1].execute = "returns"
            /\ actors[2].execute = "untilInterrupt"
            /\ ret[1] = <<1>>) => result = <<1>>

\* Actor 1 returned its error, actor 2 blocked until its interrupt was called
\* and returned nil, and Run has returned.
C4_Witness ==
    /\ variant = "ctx"
    /\ closeTimeout = 0
    /\ ~syncShutdown
    /\ N = 2
    /\ actors[1].execute = "returns"
    /\ actors[2].execute = "untilInterrupt"
    /\ ret = << <<1>>, <<Nil>> >>
    /\ intr[2] = "done"
    /\ Returned
    /\ result = <<1>>

\* C5: under fair scheduling, with interrupts that return and executes that
\* return once told to stop, Run returns whenever a qualifying completion has
\* occurred.
C5_RunEventuallyReturns == [](QualifyingCompletionOccurred => <>Returned)

\* Run has returned from a group in which actor 2 blocked until it was
\* interrupted.
C5_Witness ==
    /\ Returned
    /\ N = 2
    /\ actors[2].execute = "untilInterrupt"
    /\ ret[1] = <<1>>
    /\ exec[2] = "done"

\* C6: while the only completions are sidecars that returned nil and a
\* non-sidecar actor is still running, Run is still in its first wait: no
\* interrupt has been invoked and Run has not returned.
C6_BenignSidecarDoesNotTrigger ==
    (/\ variant = "sidecar"
     /\ pc # "idle"
     /\ \A a \in Actors :
            exec[a] = "done" => actors[a].sidecar /\ ret[a] = <<Nil>>
     /\ \E a \in Actors : ~actors[a].sidecar /\ exec[a] = "running")
    => /\ pc = "waitFirst"
       /\ \A a \in Actors : intr[a] = "idle" /\ intrCalls[a] = 0
       /\ result = <<>>

\* Run has received the nil result of the sidecar actor 1 while the regular
\* actor 2 is running, and keeps waiting.
C6_Witness ==
    /\ variant = "sidecar"
    /\ N = 2
    /\ actors[1].sidecar
    /\ ~actors[2].sidecar
    /\ ret[1] = <<Nil>>
    /\ exec[2] = "running"
    /\ actorResults = <<>>
    /\ waitCount = 1
    /\ pc = "waitFirst"

\* C7: when the first qualifying completion is a sidecar returning a non-nil
\* error E, Run does not pass it over (while Run is in its first wait the
\* result is still to be received), err is E from then on, every actor has
\* been interrupted once when the interrupt loop is over, and Run returns E
\* after every interrupt has returned.
C7_SidecarErrorTriggers ==
    (variant = "sidecar" /\ firstQ # <<>> /\ firstQ[1].sidecar
        /\ firstQ[1].err # Nil) =>
        /\ pc = "waitFirst" => firstQ[1] \in Pending
        /\ PastFirstWait => err = firstQ[1].err
        /\ PastInterruptLoop => AllInterruptedOnce /\ AllInterruptsReturned
        /\ Returned => result = <<firstQ[1].err>>

\* The sidecar actor 1 returned its error while the regular actor 2 was
\* running; Run has returned that error.
C7_Witness ==
    /\ variant = "sidecar"
    /\ N = 2
    /\ actors[1].sidecar
    /\ ~actors[2].sidecar
    /\ actors[2].execute = "untilInterrupt"
    /\ firstQ = << [sidecar |-> TRUE, err |-> 1] >>
    /\ Returned
    /\ result = <<1>>
    /\ AllInterruptedOnce

\* C8: when the first qualifying completion is a non-sidecar actor returning
\* nil, Run does not pass it over (while Run is in its first wait a result is
\* still to be received), err is nil from then on, every actor has been
\* interrupted once when the interrupt loop is over, and Run returns nil.
C8_RegularNilTriggers ==
    (N >= 1 /\ firstQ # <<>> /\ ~firstQ[1].sidecar /\ firstQ[1].err = Nil) =>
        /\ pc = "waitFirst" => firstQ[1] \in Pending
        /\ PastFirstWait => err = Nil
        /\ PastInterruptLoop => AllInterruptedOnce
        /\ Returned => result = <<Nil>>

\* The regular actor 2 returned nil first; the sidecar actor 1, which was
\* running, has been interrupted; Run has returned nil.
C8_Witness ==
    /\ variant = "sidecar"
    /\ N = 2
    /\ actors[1].sidecar
    /\ actors[1].execute = "untilInterrupt"
    /\ ~actors[2].sidecar
    /\ firstQ = << [sidecar |-> FALSE, err |-> Nil] >>
    /\ ret[1] = <<1>>
    /\ Returned
    /\ result = <<Nil>>
    /\ AllInterruptedOnce

\* Every actor is a sidecar and every one has returned nil.
AllSidecarsReturnedNil ==
    /\ variant = "sidecar"
    /\ N >= 1
    /\ \A a \in Actors : actors[a].sidecar /\ ret[a] = <<Nil>>

\* C9: in a group of sidecars only that have all returned nil, Run never
\* waits for a result that is not there (in its first wait a result is still
\* to be received, and the loop for the remaining actors has no iteration
\* left), it eventually returns, and it returns nil after every interrupt has
\* been invoked once.
C9_AllSidecarsNilTerminates ==
    /\ [](AllSidecarsReturnedNil =>
            /\ pc = "waitFirst" => actorResults # <<>>
            /\ pc = "waitRun" => ~(cnt < waitCount)
            /\ Returned => /\ result = <<Nil>>
                           /\ AllInterruptedOnce
                           /\ AllInterruptsReturned)
    /\ [](AllSidecarsReturnedNil => <>Returned)

\* Two sidecars returned nil and Run has returned.
C9_Witness ==
    /\ AllSidecarsReturnedNil
    /\ N = 2
    /\ Returned
    /\ waitCount = 0

\* C10: with synchronous shutdown the interrupts are invoked one at a time in
\* registration order: whenever the interrupt of an actor has been invoked,
\* the interrupts of all actors registered before it have returned, so that
\* the interrupts of X, Y, Z complete in the order X, Y, Z.
C10_SyncShutdownInRegistrationOrder ==
    (variant = "ctx" /\ syncShutdown) =>
        \A a, b \in Actors :
            (a < b /\ intr[b] # "idle") => intr[a] = "done"

\* With three actors, of which the last one triggered the shutdown, the
\* interrupt of the first has returned, that of the second is running and
\* that of the third has not been invoked.
C10_Witness ==
    /\ variant = "ctx"
    /\ syncShutdown
    /\ N = 3
    /\ exec = <<"running", "running", "done">>
    /\ intr = <<"done", "running", "idle">>

\* The deadline of closeCtx has passed and Run has not returned.
CloseDeadlinePassed ==
    /\ variant = "ctx"
    /\ closeTimeout # 0
    /\ closeCtxDone
    /\ ~Returned

\* C11: with a close timeout, once the deadline has passed Run does not wait
\* for an interrupt that is still running: in the interrupt phase the Run
\* goroutine is able to take its next step without any interrupt returning.
C11_ReturnsAtCloseTimeout ==
    (CloseDeadlinePassed /\ pc \in {"shutdown", "waitClose"}) =>
        ENABLED RunStep

\* C12: with the default concurrent shutdown a running interrupt stalls
\* neither the loop that invokes the interrupts nor any other interrupt: the
\* next interrupt can be invoked whatever the earlier ones do, every running
\* interrupt can return and notify, and when the loop is over every interrupt
\* has been invoked.
C12_ConcurrentInterruptsDoNotStall ==
    (variant = "ctx" /\ ~syncShutdown) =>
        /\ pc = "shutdown" => ENABLED run_Shutdown
        /\ \A a \in Actors : intr[a] = "running" => ENABLED shutdown_Return(a)
        /\ (N >= 1 /\ PastInterruptLoop) => AllInterruptedOnce

\* The interrupt of actor 1 is still running while those of actors 2 and 3,
\* invoked after it, have returned.
C12_Witness ==
    /\ variant = "ctx"
    /\ ~syncShutdown
    /\ N = 3
    /\ intr = <<"running", "done", "done">>
    /\ pc = "waitClose"

\* C13: the run context is cancelled once per run, by one call of runCancel:
\* not before the first completion has been received, and before any
\* interrupt is invoked.
C13_RunContextCancelledOnce ==
    variant = "ctx" =>
        /\ cancelCalls <= 1
        /\ runCtxDone <=> cancelCalls = 1
        /\ runCtxDone => pc \in {"shutdown", "waitClose", "waitRun", "returned"}
        /\ (\E a \in Actors : intr[a] # "idle") => runCtxDone
        /\ (N >= 1 /\ PastInterruptLoop) => cancelCalls = 1

\* The run context has just been cancelled: the first completion has been
\* received and no interrupt has been invoked yet.
C13_Witness ==
    /\ variant = "ctx"
    /\ N = 2
    /\ runCtxDone
    /\ cancelCalls = 1
    /\ pc = "shutdown"
    /\ exec = <<"running", "done">>
    /\ \A a \in Actors : intr[a] = "idle"

\* C14: with no actor registered, a call of Run returns nil at once: Run is
\* never in a waiting position, no execute and no interrupt is invoked, the
\* run context is not cancelled and no channel is used.
C14_ZeroActorsReturnsNil ==
    (N = 0 /\ pc # "idle") =>
        /\ Returned
        /\ result = <<Nil>>
        /\ ~runCtxDone /\ cancelCalls = 0 /\ ~closeCtxDone
        /\ runCh = <<>> /\ closeCh = 0 /\ actorResults = <<>>
        /\ ~chClosed

\* group.run has returned nil from a group without actors.
C14_Witness ==
    /\ variant = "ctx"
    /\ N = 0
    /\ Returned
    /\ result = <<Nil>>

C19_InterruptsReceiveReturnedError ==
    variant = "sidecar" =>
        \A a \in Actors :
            /\ intr[a] # "idle" => intrArg[a] = <<err>>
            /\ (Returned /\ N >= 1) => intrArg[a] = result

\* Run has returned the error of actor 2, which both interrupts were given.
C19_Witness ==
    /\ variant = "sidecar"
    /\ Returned
    /\ N = 2
    /\ result = <<2>>
    /\ intrArg = << <<2>>, <<2>> >>

\* The registered components.
Registered == {runnables[k] : k \in DOMAIN runnables}

\* C15: Alive() is false exactly when some registered component reports that
\* it is not alive; it is true for a group without components, and a call
\* Add(false, ...) leaves it as it was.
C15_AliveIffAllRegisteredAlive ==
    /\ ~Group_Alive <=> \E r \in Registered : ~alive[r]
    /\ runnables = <<>> => Group_Alive
    /\ (lastAdd # <<>> /\ ~lastAdd[1].when) =>
           (Group_Alive <=> AliveOf(lastAdd[1].runnables))

\* Two components are registered, the first alive and the second not, and
\* Alive() is false.
C15_Witness ==
    /\ runnables = <<"c1", "c2">>
    /\ alive["c1"]
    /\ ~alive["c2"]
    /\ ~Group_Alive

\* C16: after Add(false, rs...) the registered components and the actors are
\* what they were before the call; after Add(true, rs...) the components
\* registered before are followed by those of rs in argument order, and
\* there is one more actor for each of them.
C16_AddAppendsInOrderIfTrue ==
    lastAdd # <<>> =>
        LET call == lastAdd[1]
            before == call.runnables
        IN  IF call.when
            THEN /\ Len(runnables) = Len(before) + Len(call.rs)
                 /\ \A k \in DOMAIN before : runnables[k] = before[k]
                 /\ \A k \in DOMAIN call.rs :
                        runnables[Len(before) + k] = call.rs[k]
                 /\ N = Len(call.actors) + Len(call.rs)
                 /\ \A k \in DOMAIN call.actors : actors[k] = call.actors[k]
            ELSE /\ runnables = before
                 /\ actors = call.actors

\* Add(true, c2, c1) was called when c1 alone was registered.
C16_Witness ==
    /\ lastAdd # <<>>
    /\ lastAdd[1].when
    /\ lastAdd[1].rs = <<"c2", "c1">>
    /\ lastAdd[1].runnables = <<"c1">>
    /\ runnables = <<"c1", "c2", "c1">>
    /\ N = 3

\* The non-nil errors the interrupts of the registered actors may return.
CloseErrors == UNION {CloseErrorsOf(a) \ {Nil} : a \in Actors}

\* C17: whatever the interrupts return, the err of group.run is never an
\* interrupt's error: once past the first wait it is the error of the first
\* completion of an execute, and that is what Run returns.
C17_InterruptErrorsNeverReturned ==
    (variant = "ctx" /\ N >= 1 /\ PastFirstWait) =>
        /\ err \notin CloseErrors
        /\ err = firstExit[1].err
        /\ Returned => result = <<firstExit[1].err>>

\* Both interrupts have returned their own errors and Run has returned nil,
\* the result of the first execute to return.
C17_Witness ==
    /\ variant = "ctx"
    /\ N = 2
    /\ Returned
    /\ intrErr = << <<-2>>, <<-3>> >>
    /\ firstExit = <<[sidecar |-> FALSE, err |-> Nil]>>
    /\ result = <<Nil>>

Phase ==
    CASE pc = "idle" -> 0
      [] pc = "waitFirst" -> 1
      [] pc \in {"cancel", "shutdown", "waitClose", "waitRun"} -> 2
      [] pc = "returned" -> 3

\* C25: with at least one actor the phase of a run never goes backwards and
\* never moves by more than one, so Interrupting is not skipped; when Run has
\* returned every interrupt has been invoked; and an interrupt is invoked in
\* the Interrupting phase or later only, after a completion that is not a
\* sidecar returning nil or after every actor, all sidecars, returned nil.
C25_PhasesInOrder ==
    /\ [](N >= 1 =>
            /\ Returned => AllInterruptedOnce
            /\ (\E a \in Actors : intrCalls[a] > 0) =>
                   /\ Phase >= 2
                   /\ firstQ # <<>> \/ AllSidecarsReturnedNil)
    /\ [][N >= 1 => Phase' \in {Phase, Phase + 1}]_vars

\* Run is in its Interrupting phase: one interrupt has been invoked and the
\* other not yet.
C25_Witness ==
    /\ N = 2
    /\ Phase = 2
    /\ intrCalls = <<1, 0>>

\* What a run of group.run comes to: the error Run returned and the actors
\* whose interrupt was invoked.
Outcome == [result |-> result, interrupted |-> {a \in Actors : intrCalls[a] > 0}]

C29_SendsNeverBlock ==
    /\ \A a \in Actors :
           /\ exec[a] = "running" =>
                  /\ Len(runCh) < ChanCap
                  /\ Len(actorResults) < ChanCap
           /\ intr[a] = "running" => closeCh < ChanCap
    /\ Len(runCh) <= N /\ Len(actorResults) <= N /\ closeCh <= N

\* Two of three results wait in the channel while Run has received none and
\* the third actor still runs.
C29_Witness ==
    /\ variant = "ctx"
    /\ N = 3
    /\ pc = "waitFirst"
    /\ Len(runCh) = 2
    /\ exec = <<"done", "done", "running">>

\* C30: in group.run no goroutine sends on a closed channel: when Run has
\* closed runCh and closeCh every execute has returned and sent, every
\* interrupt has returned and notified, and everything sent was received.
C30_NoSendAfterClose ==
    variant = "ctx" =>
        /\ ~panicked
        /\ chClosed =>
               /\ \A a \in Actors : exec[a] = "done" /\ intr[a] = "done"
               /\ runCh = <<>>
               /\ closeCh = 0

\* Run has returned with a close timeout whose deadline passed while the
\* interrupts were running, and the channels are closed.
C30_Witness ==
    /\ variant = "ctx"
    /\ closeTimeout # 0
    /\ ~syncShutdown
    /\ N = 2
    /\ Returned
    /\ chClosed
    /\ \A a \in Actors : intr[a] = "done"

\* C23: the Run of the wait-group reaper has returned only if its Close was
\* invoked and no task counted in the wait group is outstanding; it has not
\* got past <-w.done before Close.
C23_ReaperReturnsAfterCloseAndTasks ==
    /\ waitPc = "returned" => done /\ Counter = 0
    /\ waitPc = "waitGroup" => done

\* The reaper's Run has returned after Close and after two tasks, added while
\* it was running, were done.
C23_Witness ==
    /\ waitPc = "returned"
    /\ done
    /\ wg[1] = "finished"
    /\ wg[2] = "finished"

\* The components that embed ForwardCompatibility and define Run only.
RunOnly == {c \in Components : Overrides(c) = {"Run"}}

\* C24: a component that defines Run only reports Alive() true, Name()
\* "unknown", no Fields, and its Close returns nil; after Add(true, ...) of
\* such components Alive() of the group is what it was for the components
\* registered before.
C24_ForwardCompatibilityDefaults ==
    /\ \A c \in RunOnly :
           /\ alive[c]
           /\ Name(c) = "unknown"
           /\ Fields(c) = <<>>
           /\ CloseResults(c) = {Nil}
    /\ ( /\ lastAdd # <<>>
         /\ lastAdd[1].when
         /\ \A k \in DOMAIN lastAdd[1].rs : lastAdd[1].rs[k] \in RunOnly )
       => (Group_Alive <=> AliveOf(lastAdd[1].runnables))

\* Add(true, fc, fc) was called when c1 alone was registered, and the group
\* is alive.
C24_Witness ==
    /\ lastAdd # <<>>
    /\ lastAdd[1].when
    /\ lastAdd[1].rs = <<"fc", "fc">>
    /\ runnables = <<"c1", "fc", "fc">>
    /\ Group_Alive

\* The places in the log of the record of actor a.
Places(a, msg, method) ==
    {k \in DOMAIN log : log[k] = Record(a, msg, method)}

\* Every record of the first kind for actor a is preceded by one of the
\* second kind for actor a.
Preceded(a, msg1, method1, msg2, method2) ==
    \A k \in Places(a, msg1, method1) :
        \E j \in Places(a, msg2, method2) : j < k

\* C22: for every registered component the log holds each of started run,
\* returned run, started close, returned close at most once, and once each
\* when Run has returned; returned follows started for run and for close;
\* and a started close is preceded by the returned run of some component.
C22_LogEventsOncePerPhase ==
    /\ \A a \in DOMAIN runnables :
           /\ \A msg \in {"started", "returned"}, method \in {"run", "close"} :
                  /\ Cardinality(Places(a, msg, method)) <= 1
                  /\ Returned => Cardinality(Places(a, msg, method)) = 1
           /\ Preceded(a, "returned", "run", "started", "run")
           /\ Preceded(a, "returned", "close", "started", "close")
    /\ \A k \in DOMAIN log :
           (log[k].msg = "started" /\ log[k].method = "close") =>
               \E j \in 1..(k - 1) :
                   log[j].msg = "returned" /\ log[j].method = "run"

\* Run has returned from a group of two components, and the Close of the
\* second was started before its Run had logged that it started.
C22_Witness ==
    /\ Returned
    /\ Len(runnables) = 2
    /\ Len(log) = 8
    /\ \E k \in Places(2, "started", "close") :
           \E j \in Places(2, "started", "run") : k < j

\* C27: no step of a run changes the registered components or actors, and a
\* call of Alive changes nothing but its result, which is that of the
\* registered components' Alive whether Run is in flight or not.
C27_RunAndAliveKeepRegistration ==
    [][ /\ (pc # "idle" \/ pc' # "idle") => UNCHANGED <<runnables, actors>>
        /\ Group_AliveCall =>
               /\ UNCHANGED <<runnables, actors, alive, lastAdd, pc, exec,
                              intr, log>>
               /\ aliveResult' = <<\A r \in Registered : alive[r]>> ]_vars

\* Alive was called while Run was waiting for the interrupt of a component
\* that is not alive, and returned false.
C27_Witness ==
    /\ pc = "waitClose"
    /\ runnables = <<"c2">>
    /\ ~alive["c2"]
    /\ aliveResult = <<FALSE>>

-----------------------------------------------------------------------------
(* C21: SignalHandler *)

\* The errors SignalHandler's execute makes of the watched signals.
SignalErrors == {SignalError(sig) : sig \in Watched}

\* C21 as stated: a SignalHandler's execute returns the SignalError of the
\* received signal when a watched signal arrived before its context was
\* cancelled, and the context's error when the context was cancelled (by its
\* owner or by the interrupt) first; and a group holding the handler returns
\* that SignalError from Run.
C21_SignalHandlerGroupReturnsSignalError ==
    variant = "sidecar" =>
        \A a \in SignalHandlers :
            exec[a] = "done" =>
                /\ ret[a] = IF sigFirst
                            THEN <<SignalError(sigGot[1])>>
                            ELSE <<Canceled>>
                /\ (Returned /\ ret[a][1] \in SignalErrors) => result = ret[a]

\* C21, amended: the execute returns only once a watched signal was
\* delivered or its context is cancelled; it returns the SignalError of the
\* delivered signal if the context is not cancelled at that moment, the
\* context's error if no signal was delivered, and one of the two if both
\* happened; and Run returns that SignalError when the handler is the first
\* actor to exit.
C21_SignalHandlerFirstReturnsSignalError ==
    /\ [](variant = "sidecar" =>
            \A a \in SignalHandlers :
                exec[a] = "done" =>
                    /\ \/ ret[a] = <<Canceled>> /\ CtxDone(a)
                       \/ /\ sigGot # <<>>
                          /\ sigGot[1] \in Watched
                          /\ ret[a] = <<SignalError(sigGot[1])>>
                    /\ ( /\ Returned
                         /\ ret[a][1] \in SignalErrors
                         /\ firstExit[1].err = ret[a][1] )
                       => result = ret[a])
    /\ [][\A a \in SignalHandlers :
              (a \in DOMAIN exec' /\ exec[a] = "running" /\ exec'[a] = "done") =>
                  /\ sigNotify
                  /\ ~CtxDone(a) => ret'[a] = <<SignalError(sigGot[1])>>
                  /\ sigCh = <<>> => ret'[a] = <<Canceled>>]_vars

\* SIGINT was delivered while the handler and an actor that runs until
\* interrupted were running and no context was cancelled; Run has returned
\* its SignalError.
C21_Witness ==
    /\ variant = "sidecar"
    /\ N = 2
    /\ actors[1].execute = "signalHandler"
    /\ actors[2].execute = "untilInterrupt"
    /\ sigFirst
    /\ ~parentDone
    /\ Returned
    /\ result = <<SignalError(2)>>

-----------------------------------------------------------------------------
(* C28: GracefulRestart *)

\* C28 as stated: a GracefulRestart's execute returns after upg.Ready() was
\* called; what it returns is the error of Ready if Ready failed, and
\* otherwise nil when upg.Exit() fired before its context was cancelled and
\* the context's error when the context was cancelled first; once its
\* interrupt has returned, the context is cancelled and upg.Stop() was called.
C28_RestartReturnsByFirstEvent ==
    variant = "sidecar" =>
        \A a \in Restarters :
            /\ exec[a] = "done" =>
                   /\ upgReady # "notCalled"
                   /\ upgReady = "failed" => ret[a] = <<ReadyError>>
                   /\ upgReady = "ok" =>
                          ret[a] = IF upgExitFirst THEN <<Nil>> ELSE <<Canceled>>
            /\ intr[a] = "done" => CtxDone(a) /\ upgStops = 1

\* C28, amended: the execute calls upg.Ready() first and, if that fails,
\* returns its error without waiting for anything; otherwise it returns only
\* once upg.Exit() fired or its context is cancelled: nil if the context is
\* not cancelled at that moment, the context's error if Exit has not fired,
\* and one of the two if both happened.  Its interrupt cancels the context
\* and calls upg.Stop(), once.
C28_RestartReturnsByReadyEvent ==
    /\ [](variant = "sidecar" =>
            \A a \in Restarters :
                /\ exec[a] = "done" =>
                       /\ upgReady # "notCalled"
                       /\ upgReady = "failed" => ret[a] = <<ReadyError>>
                       /\ upgReady = "ok" =>
                              \/ ret[a] = <<Nil>> /\ upgExit
                              \/ ret[a] = <<Canceled>> /\ CtxDone(a)
                /\ (exec[a] = "running" /\ upgReady = "failed") => MayReturn(a)
                /\ intr[a] = "done" => CtxDone(a) /\ upgStops = 1
                /\ intr[a] = "idle" => upgStops = 0)
    /\ [][\A a \in Restarters :
              ( /\ a \in DOMAIN exec'
                /\ exec[a] = "running"
                /\ exec'[a] = "done"
                /\ upgReady = "ok" ) =>
                  /\ ~CtxDone(a) => ret'[a] = <<Nil>>
                  /\ ~upgExit => ret'[a] = <<Canceled>>]_vars

\* Ready succeeded, the owner cancelled the context before Exit fired, the
\* execute returned the context's error and Run has returned it, after the
\* interrupt called Stop.
C28_Witness ==
    /\ variant = "sidecar"
    /\ N = 2
    /\ actors[1].execute = "gracefulRestart"
    /\ actors[2].execute = "untilInterrupt"
    /\ upgReady = "ok"
    /\ ~upgExit
    /\ parentDone
    /\ Returned
    /\ result = <<Canceled>>
    /\ upgStops = 1

-----------------------------------------------------------------------------
(* C31: nothing is told to stop before the first execute has returned *)

\* C31: whenever the run context is cancelled or the interrupt of some actor
\* has been invoked, the execute of at least one actor has returned.
C31_NoCancelBeforeFirstReturn ==
    (runCtxDone \/ \E a \in Actors : intr[a] # "idle") =>
        \E a \in Actors : exec[a] = "done"

\* The run context is cancelled and the first interrupt is being invoked
\* while one execute has returned and another is still running.
C31_Witness ==
    /\ variant = "ctx"
    /\ N >= 2
    /\ runCtxDone
    /\ \E a \in Actors : intr[a] = "running"
    /\ \E a, b \in Actors : exec[a] = "done" /\ exec[b] = "running"

-----------------------------------------------------------------------------
(* C32: the interrupts of Group.Run are invoked one after the other *)

\* C32: in Group.Run an interrupt is invoked only after the interrupts of all
\* actors registered earlier have returned, so that while the interrupt of
\* an actor has not returned, no actor registered later is interrupted and
\* Run does not return.
C32_InterruptsOneAfterTheOther ==
    variant = "sidecar" =>
        \A a \in Actors :
            /\ intr[a] # "idle" => \A b \in 1..(a - 1) : intr[b] = "done"
            /\ intr[a] = "running" =>
                   /\ \A b \in (a + 1)..N : intr[b] = "idle"
                   /\ ~Returned

\* The interrupt of the second of three actors has been invoked and has not
\* returned: the first was interrupted, the third is not and still runs, and
\* Run has not returned.
C32_Witness ==
    /\ variant = "sidecar"
    /\ N = 3
    /\ intr = <<"done", "running", "idle">>
    /\ exec[3] = "running"
    /\ actors[3].execute = "untilInterrupt"
    /\ ~Returned

====
